---- MODULE Spec2Model ----
(***************************************************************************)
(* Content Planner Agent: the router / handler graph, the session store    *)
(* and the extraction protocol of content_planner_agent.                   *)
(*                                                                         *)
(* Text is a sequence of tokens.  A token is either one character          *)
(* ("sp" a blank, "nl" a line break, "a" "b" ordinary characters), a run   *)
(* of ordinary characters ("W", 49 of them), a literal marker of the       *)
(* extraction protocol ("GS" = "GUIDELINE UPDATE:", "GE" = "END GUIDELINE  *)
(* UPDATE", "PS" = "POST EXAMPLE:", "PE" = "END POST EXAMPLE"), or a word  *)
(* the classifier / debug intent detection looks for.  Upper-case words    *)
(* ("APP_INFO") are distinct tokens that lower() maps to the lower-case    *)
(* one.                                                                    *)
(***************************************************************************)
EXTENDS Integers, Sequences, FiniteSets, TLC

\* ---------------------------------------------------------------- bounds
\* number of process_message calls started in one behaviour
MaxTurns == 3
\* the same, when two callers interleave
MaxConcTurns == 2
\* turns of the runs checked for termination
MaxLiveTurns == 2
\* applications of extract_guideline_updates that follow one another
MaxExtractions == 2
\* calls of any kind (turns and archive calls) in the two-session runs
MaxApiCalls == 3
MaxExampleTurns == 3
MaxSaveTurns == 3

\* ------------------------------------------------------------- constants
\* extractors.py: sections with len(s.strip()) > 50 survive the heuristic
MinSectionLen == 50

Sessions == {"s1", "s2"}
Callers == {"t1", "t2"}
Labels == {"guidelines", "app_info", "post_examples"}

\* ------------------------------------------------------- text primitives
IsWs(tok) == tok \in {"sp", "nl"}

TokLen(tok) ==
  CASE tok = "W" -> 49
    [] tok = "GS" -> 17
    [] tok = "GE" -> 20
    [] tok = "PS" -> 13
    [] tok = "PE" -> 16
    [] tok \in {"guidelines", "GUIDELINES"} -> 10
    [] tok \in {"app_info", "APP_INFO"} -> 8
    [] tok \in {"post_examples", "POST_EXAMPLES"} -> 13
    [] tok \in {"app", "APP"} -> 3
    [] tok \in {"post", "POST"} -> 4
    [] tok = "feature" -> 7
    [] tok = "example" -> 7
    [] tok = "hi" -> 2
    [] tok = "GUIDELINES_FALLBACK" -> 52
    [] OTHER -> 1

RECURSIVE StrLen(_)
StrLen(s) == IF s = <<>> THEN 0 ELSE TokLen(Head(s)) + StrLen(Tail(s))

\* str.lower()
LowerTok(tok) ==
  CASE tok = "GUIDELINES" -> "guidelines"
    [] tok = "APP_INFO" -> "app_info"
    [] tok = "POST_EXAMPLES" -> "post_examples"
    [] tok = "APP" -> "app"
    [] tok = "POST" -> "post"
    [] OTHER -> tok

Lower(s) == [i \in 1..Len(s) |-> LowerTok(s[i])]

\* str.strip(): drop leading and trailing whitespace
RECURSIVE LStrip(_)
LStrip(s) == IF s # <<>> /\ IsWs(Head(s)) THEN LStrip(Tail(s)) ELSE s

RECURSIVE RStrip(_)
RStrip(s) ==
  IF s # <<>> /\ IsWs(s[Len(s)]) THEN RStrip(SubSeq(s, 1, Len(s) - 1)) ELSE s

Strip(s) == RStrip(LStrip(s))

\* "word" in s
Contains(s, word) == \E i \in 1..Len(s) : s[i] = word

\* index of the first occurrence of tok at or after position from, 0 if none
IndexFrom(s, tok, from) ==
  LET hits == {i \in from..Len(s) : s[i] = tok}
  IN IF hits = {} THEN 0 ELSE CHOOSE i \in hits : \A j \in hits : i <= j

IsPrefix(p, s) == Len(p) <= Len(s) /\ SubSeq(s, 1, Len(p)) = p

\* "\n\n"
BlankLine == <<"nl", "nl">>

\* sep.join(parts)
RECURSIVE Join(_, _)
Join(parts, sep) ==
  IF parts = <<>> THEN <<>>
  ELSE IF Len(parts) = 1 THEN parts[1]
  ELSE parts[1] \o sep \o Join(Tail(parts), sep)

\* variant: a section of exactly the limit is kept
RECURSIVE LongSections_at_least(_)
LongSections_at_least(secs) ==
  IF secs = <<>> THEN <<>>
  ELSE IF StrLen(Strip(Head(secs))) >= MinSectionLen
       THEN <<Head(secs)>> \o LongSections_at_least(Tail(secs))
       ELSE LongSections_at_least(Tail(secs))

\* [x for x in xs if keep(x)]
RECURSIVE LongSections(_)
LongSections(secs) ==
  IF secs = <<>> THEN <<>>
  ELSE IF StrLen(Strip(Head(secs))) > MinSectionLen
       THEN <<Head(secs)>> \o LongSections(Tail(secs))
       ELSE LongSections(Tail(secs))

\* re.findall(START (.*?) END, s, re.DOTALL): the groups of the
\* non-overlapping leftmost matches, each reaching to the first END after
\* its START
RECURSIVE FindAll(_, _, _, _)
FindAll(s, from, startTok, endTok) ==
  LET p == IndexFrom(s, startTok, from)
      q == IF p = 0 THEN 0 ELSE IndexFrom(s, endTok, p + 1)
  IN IF p = 0 \/ q = 0 THEN <<>>
     ELSE <<SubSeq(s, p + 1, q - 1)>> \o FindAll(s, q + 1, startTok, endTok)

\* re.split(r'\n\s*\n', s): a separator starts at a line break and reaches,
\* through whitespace only, to the last line break of that whitespace run
WsRunEnd(s, i) ==
  CHOOSE k \in i..Len(s) :
    /\ \A x \in i..k : IsWs(s[x])
    /\ (k = Len(s) \/ ~IsWs(s[k + 1]))

SepEnd(s, i) ==
  IF s[i] # "nl" THEN 0
  ELSE LET nls == {m \in (i + 1)..WsRunEnd(s, i) : s[m] = "nl"}
       IN IF nls = {} THEN 0 ELSE CHOOSE m \in nls : \A n \in nls : n <= m

RECURSIVE SplitSections(_)
SplitSections(s) ==
  LET starts == {i \in 1..Len(s) : SepEnd(s, i) # 0}
  IN IF starts = {} THEN <<s>>
     ELSE LET i == CHOOSE x \in starts : \A y \in starts : x <= y
          IN <<SubSeq(s, 1, i - 1)>>
               \o SplitSections(SubSeq(s, SepEnd(s, i) + 1, Len(s)))

\* ---------------------------------------------------- extraction protocol
\* variant: the latest update replaces the draft instead of extending it
extract_guideline_updates_replace(response, current_draft) ==
  LET matches == FindAll(response, 1, "GS", "GE")
  IN IF matches # <<>> THEN Strip(matches[Len(matches)]) ELSE current_draft

\* variant: the first update of the reply is taken
extract_guideline_updates_first(response, current_draft) ==
  LET matches == FindAll(response, 1, "GS", "GE")
      latest_update == Strip(matches[1])
      potential_guideline == Join(LongSections(SplitSections(response)), BlankLine)
  IN IF matches # <<>>
     THEN IF current_draft # <<>>
          THEN current_draft \o BlankLine \o latest_update
          ELSE latest_update
     ELSE IF current_draft = <<>> /\ potential_guideline # <<>>
          THEN potential_guideline
          ELSE current_draft

\* variant: the update is put after the draft with a single line break
extract_guideline_updates_one_newline(response, current_draft) ==
  LET matches == FindAll(response, 1, "GS", "GE")
      latest_update == Strip(matches[Len(matches)])
      potential_guideline == Join(LongSections(SplitSections(response)), BlankLine)
  IN IF matches # <<>>
     THEN IF current_draft # <<>>
          THEN current_draft \o <<"nl">> \o latest_update
          ELSE latest_update
     ELSE IF current_draft = <<>> /\ potential_guideline # <<>>
          THEN potential_guideline
          ELSE current_draft

\* variant: the long sections of a reply without markers are taken also
\* when there is a draft
extract_guideline_updates_always_guess(response, current_draft) ==
  LET matches == FindAll(response, 1, "GS", "GE")
      latest_update == Strip(matches[Len(matches)])
      potential_guideline == Join(LongSections(SplitSections(response)), BlankLine)
  IN IF matches # <<>>
     THEN IF current_draft # <<>>
          THEN current_draft \o BlankLine \o latest_update
          ELSE latest_update
     ELSE IF potential_guideline # <<>>
          THEN potential_guideline
          ELSE current_draft

\* extract_guideline_updates: the last marked update, after the draft when
\* there is one; without markers and without a draft the long sections
extract_guideline_updates(response, current_draft) ==
  LET matches == FindAll(response, 1, "GS", "GE")
      latest_update == Strip(matches[Len(matches)])
      potential_guideline == Join(LongSections(SplitSections(response)), BlankLine)
  IN IF matches # <<>>
     THEN IF current_draft # <<>>
          THEN current_draft \o BlankLine \o latest_update
          ELSE latest_update
     ELSE IF current_draft = <<>> /\ potential_guideline # <<>>
          THEN potential_guideline
          ELSE current_draft

\* the pattern's \s* on both sides of the lazy group leave the group
\* without leading or trailing whitespace
RECURSIVE StripAll(_)
StripAll(groups) ==
  IF groups = <<>> THEN <<>> ELSE <<Strip(Head(groups))>> \o StripAll(Tail(groups))

extract_post_examples(content) == StripAll(FindAll(content, 1, "PS", "PE"))

\* ------------------------------------------------------------ messages
HumanMessage(text) == [role |-> "human", content |-> text]
AIMessage(text) == [role |-> "ai", content |-> text]
IsAIMessage(m) == m.role = "ai"

\* config/app_info.py: the static application payload, the empty dict
APP_INFO == {"APP_INFO"}
NoContext == {}

\* fixed texts of the code, one token each
NoGuidelinesReply == <<"NO_GUIDELINES">>
GuidelinesFallback == <<"GUIDELINES_FALLBACK">>
AppInfoFallback == <<"APP_INFO_FALLBACK">>
PostExamplesFallback == <<"POST_EXAMPLES_FALLBACK">>
ErrorReply == <<"SORRY_ERROR">>

DEBUG_RESPONSES(intent) ==
  CASE intent = "guidelines" -> <<"DEBUG_GUIDELINES">>
    [] intent = "app_info" -> <<"DEBUG_APP_INFO">>
    [] intent = "post_examples" ->
         <<"DEBUG_POSTS", "nl", "nl", "PS", "nl", "a", "nl", "PE">>

\* ------------------------------------------------------- model responses
\* A response of the model collaborator: the call raises, or it returns a
\* message whose content is a string (items = <<text>>) or a list of
\* messages (items = their contents, possibly none).
TextResponse(text) == [raises |-> FALSE, is_list |-> FALSE, items |-> <<text>>]
ListResponse(items) == [raises |-> FALSE, is_list |-> TRUE, items |-> items]
Failure == [raises |-> TRUE, is_list |-> FALSE, items |-> <<>>]

RouterResponses ==
  { TextResponse(<<"guidelines">>),
    TextResponse(<<"sp", "APP_INFO", "nl">>),
    TextResponse(<<"post_examples">>),
    TextResponse(<<"app_info", "sp", "guidelines">>),
    TextResponse(<<"post_examples", "sp", "GUIDELINES">>),
    TextResponse(<<"post_examples", "sp", "app_info">>),
    TextResponse(<<"x">>),
    TextResponse(<<>>),
    ListResponse(<<>>),
    ListResponse(<<<<"POST_EXAMPLES">>>>),
    Failure }

\* replies to the guidelines and post_examples handlers: no marker, one
\* block of each kind, two guideline blocks and a repeated post block, an
\* empty content list, a failed call
HandlerResponses ==
  { TextResponse(<<"a">>),
    TextResponse(<<"GS", "sp", "a", "sp", "GE", "PS", "sp", "a", "nl", "PE">>),
    TextResponse(<<"GS", "a", "GE", "x", "GS", "b", "GE",
                   "PS", "b", "PE", "PS", "b", "PE">>),
    ListResponse(<<>>),
    Failure }

\* replies to the app_info handler
AppInfoResponses == { TextResponse(<<"a">>), ListResponse(<<>>), Failure }

\* user messages: the text matters to debug mode's intent detection only,
\* in normal mode it is carried into the history and the model's prompt
UserTexts == { <<"hi">> }
DebugTexts ==
  { <<"hi">>, <<"APP", "sp", "post">>, <<"example">>, <<"feature">>, <<"POST">> }

\* the node's "Handle response content" block
ContentStr(response, fallback) ==
  IF response.is_list
  THEN IF Len(response.items) > 0 THEN response.items[1] ELSE fallback
  ELSE response.items[1]

\* ------------------------------------------------------------------ state
VARIABLES
  debug_mode,          \* ContentPlannerAgent.debug_mode
  in_memory_sessions,  \* DatabaseManager.in_memory_sessions: id -> stored state
  memory,              \* MemorySaver: thread id -> checkpointed messages channel
  pc,                  \* per caller: where its process_message call stands
  session_id,          \* per caller: the call's session id
  existing_state,      \* per caller: the state read from the store
  state,               \* per caller: graph channel values / result
  aux,                 \* per caller: what the call has done so far
  turns,               \* calls started
  in_memory_guidelines,\* DatabaseManager.in_memory_guidelines: id -> text
  last_call,           \* the latest save_guideline / get_guideline /
                       \* get_post_examples call and what it returned
  saves,               \* id -> the texts of its save_guideline calls, in order
  extraction           \* an application of extract_guideline_updates:
                       \* its arguments, its result, how many were made

vars == <<debug_mode, in_memory_sessions, memory, pc, session_id,
          existing_state, state, aux, turns,
          in_memory_guidelines, last_call, saves, extraction>>

api_vars == <<in_memory_guidelines, last_call, saves, extraction>>

DefaultStored ==
  [guideline_draft |-> <<>>, current_task |-> "guidelines",
   posts_examples |-> <<>>, app_context |-> NoContext]

NoState ==
  [messages |-> <<>>, guideline_draft |-> <<>>, current_task |-> "guidelines",
   posts_examples |-> <<>>, app_context |-> NoContext]

\* loaded: the messages channel as loaded from the checkpoint;
\* classified / handled: router classifications and handler runs;
\* llm_calls: model calls made by handlers; failed: the node whose model
\* call raised; intent: the router's intent string of the last classification;
\* message: the text the call was given;
\* label: the task the if / elif chain gives for the classifier's output; handler: the
\* handler node that ran; response: what the handler's model call returned;
\* nodes: node executions of the graph run; store: how the read of the
\* session store ended ("found", "absent", "failed"); prompt: the text of
\* the user message as the handler sent it to the model; save_ok: FALSE
\* once the save of the turn's result failed
NoAux ==
  [loaded |-> <<>>, classified |-> 0, handled |-> 0, llm_calls |-> 0,
   failed |-> "none", intent |-> <<>>, nodes |-> 0, store |-> "none",
   prompt |-> <<>>, label |-> "none", handler |-> "none",
   response |-> TextResponse(<<>>), message |-> <<>>, save_ok |-> TRUE]

NoCall ==
  [op |-> "none", sid |-> "s1", text |-> <<>>, list |-> <<>>, ok |-> TRUE,
   store_ok |-> TRUE, raised |-> FALSE]

\* dict[key] = value
Put(dict, key, value) ==
  [k \in DOMAIN dict \cup {key} |-> IF k = key THEN value ELSE dict[k]]

\* dict.get(key, default)
Get(dict, key, default) == IF key \in DOMAIN dict THEN dict[key] ELSE default

\* variant: every call runs on one thread of the checkpointer
thread_id_shared(sid) == "s1"

\* config = {"configurable": {"thread_id": session_id}}: the checkpointer
\* keeps one history per session id
thread_id(sid) == sid

\* DatabaseManager.get_session_state(session_id) or {}, read with the
\* defaults of process_message
get_session_state(sid) == Get(in_memory_sessions, sid, DefaultStored)

\* how DatabaseManager.get_session_state ends: the record is there, the id
\* is unknown (None), or the read raised and the except block returned None
StoreRead(sid, get_ok) ==
  IF ~get_ok THEN "failed"
  ELSE IF sid \in DOMAIN in_memory_sessions THEN "found" ELSE "absent"

\* variant: a failed read hands out the stored record all the same
ExistingState_IgnoreFailure(sid, get_ok) == get_session_state(sid)

\* existing_state of process_message: get_session_state(session_id) or {},
\* read through .get(key, default)
ExistingState(sid, get_ok) ==
  IF StoreRead(sid, get_ok) = "found" THEN get_session_state(sid)
  ELSE DefaultStored

\* variant: a draft already stored is kept and the new one added to it
save_session_state_merge(sessions, sid, st) ==
  LET old == Get(sessions, sid, DefaultStored).guideline_draft
  IN Put(sessions, sid,
         [guideline_draft |->
            IF old = <<>> \/ IsPrefix(old, st.guideline_draft)
            THEN st.guideline_draft
            ELSE old \o BlankLine \o st.guideline_draft,
          current_task |-> st.current_task,
          posts_examples |-> st.posts_examples,
          app_context |-> st.app_context])

\* DatabaseManager.save_session_state: the serializable part of the state
save_session_state(sessions, sid, st) ==
  Put(sessions, sid,
      [guideline_draft |-> st.guideline_draft,
       current_task |-> st.current_task,
       posts_examples |-> st.posts_examples,
       app_context |-> st.app_context])

\* variant: messages is a plain channel, the last value written stays
ApplyUpdate_replace(st, update) ==
  [messages |-> update.messages,
   guideline_draft |-> update.guideline_draft,
   current_task |-> update.current_task,
   posts_examples |-> update.posts_examples,
   app_context |-> update.app_context]

\* variant: a turn that ends with a draft archives it
ArchiveAfterTurn_auto_save(guidelines, sid, st) ==
  IF st.guideline_draft # <<>> THEN Put(guidelines, sid, st.guideline_draft)
  ELSE guidelines

\* the archive after process_message has stored the result of a turn: only
\* save_session_state is called, the archive is the one before
ArchiveAfterTurn(guidelines, sid, st) == guidelines

\* ContentPlannerState: messages is Annotated[List, operator.add], every
\* other channel keeps the last value written
ApplyUpdate(st, update) ==
  [messages |-> st.messages \o update.messages,
   guideline_draft |-> update.guideline_draft,
   current_task |-> update.current_task,
   posts_examples |-> update.posts_examples,
   app_context |-> update.app_context]

NoExtraction ==
  [response |-> <<>>, current_draft |-> <<>>, result |-> <<>>,
   done |-> FALSE, applied |-> 0]

Init ==
  /\ debug_mode \in BOOLEAN
  /\ in_memory_sessions = <<>>
  /\ memory = <<>>
  /\ pc = [t \in Callers |-> "idle"]
  /\ session_id = [t \in Callers |-> "s1"]
  /\ existing_state = [t \in Callers |-> DefaultStored]
  /\ state = [t \in Callers |-> NoState]
  /\ aux = [t \in Callers |-> NoAux]
  /\ turns = 0
  /\ in_memory_guidelines = <<>>
  /\ last_call = NoCall
  /\ saves = <<>>
  /\ extraction = NoExtraction

\* --------------------------------------------------------------- router
\* variant: an unclear intent is passed on as the task
TaskOfIntent_NoDefault(intent) ==
  IF Contains(intent, "guidelines") THEN "guidelines"
  ELSE IF Contains(intent, "app_info") THEN "app_info"
  ELSE IF Contains(intent, "post_examples") THEN "post_examples"
  ELSE "unknown"

\* variant: app_info is looked for before guidelines
TaskOfIntent_AppInfoFirst(intent) ==
  IF Contains(intent, "app_info") THEN "app_info"
  ELSE IF Contains(intent, "guidelines") THEN "guidelines"
  ELSE IF Contains(intent, "post_examples") THEN "post_examples"
  ELSE "guidelines"

\* route_message, "Determine the task based on intent"
TaskOfIntent(intent) ==
  IF Contains(intent, "guidelines") THEN "guidelines"
  ELSE IF Contains(intent, "app_info") THEN "app_info"
  ELSE IF Contains(intent, "post_examples") THEN "post_examples"
  ELSE "guidelines"

\* route_message, "Ensure we're dealing with a string"
IntentOf(response) ==
  IF response.is_list /\ Len(response.items) = 0
  THEN <<"guidelines">>
  ELSE Lower(Strip(response.items[1]))

LastIsAI(messages) == messages # <<>> /\ IsAIMessage(messages[Len(messages)])

\* router_function: the conditional edge out of the router node
\* variant: the conditional edge never returns END
router_function_no_end(st) ==
  IF st.current_task \in Labels THEN st.current_task ELSE "guidelines"

router_function(st) ==
  IF LastIsAI(st.messages) THEN "END"
  ELSE IF st.current_task \in Labels THEN st.current_task
  ELSE "guidelines"

\* variant: the router classifies whatever the last message is
RouterSkips_Never(st) == FALSE

\* variant: any machine message in the history stops the router
RouterSkips_AnyAI(st) == \E i \in 1..Len(st.messages) : IsAIMessage(st.messages[i])

\* route_message's own guard: the last message is the machine's
RouterSkips(st) == IsAIMessage(st.messages[Len(st.messages)])

\* variant: a task other than the default, once stored, is kept ("If we're
\* in the middle of a conversation, keep routing to the same node")
route_message_sticky(st, response) ==
  IF RouterSkips(st) \/ st.current_task # "guidelines" THEN st
  ELSE [st EXCEPT !.current_task = TaskOfIntent(IntentOf(response))]

\* the update route_message returns: the state as it is when the last
\* message is the machine's, else the state with the classified task
route_message(st, response) ==
  IF RouterSkips(st) THEN st
  ELSE [st EXCEPT !.current_task = TaskOfIntent(IntentOf(response))]

\* ------------------------------------------------------------- handlers
\* the last human message of a list that holds one
LastHuman(messages) ==
  CHOOSE i \in 1..Len(messages) :
    /\ ~IsAIMessage(messages[i])
    /\ \A j \in (i + 1)..Len(messages) : IsAIMessage(messages[j])

\* a copy of the list with the context put before the text of its last
\* human message (messages = state["messages"].copy(); messages[i] = ...)
WithContext(messages, context) ==
  [messages EXCEPT ![LastHuman(messages)] = HumanMessage(context \o @.content)]

\* what process_guidelines sends to the model: the draft, when there is
\* one, goes before the user's text
GuidelinesPrompt(st) ==
  IF st.guideline_draft # <<>>
  THEN WithContext(st.messages,
                   <<"CURRENT_DRAFT", "nl">> \o st.guideline_draft \o BlankLine)
  ELSE st.messages

\* what process_post_examples sends to the model
PostExamplesPrompt(st) ==
  WithContext(st.messages,
              <<"GENERATE_FROM", "nl">> \o st.guideline_draft \o BlankLine)

\* what process_app_info sends to the model: the last message is replaced
\* by the question with the application payload
AppInfoPrompt(st) ==
  [st.messages EXCEPT ![Len(st.messages)] =
     HumanMessage(<<"nl", "QUESTION", "sp">> \o @.content
                  \o <<"nl", "nl", "APP_INFORMATION", "nl", "APP_INFO", "nl">>)]

\* the text of the user message as the model gets it
PromptText(messages) == messages[LastHuman(messages)].content

\* variant: the handler returns the list it sent to the model with the reply
process_guidelines_returns_prompt(st, response) ==
  LET content_str == ContentStr(response, GuidelinesFallback)
  IN [messages |-> GuidelinesPrompt(st) \o <<AIMessage(content_str)>>,
      guideline_draft |-> extract_guideline_updates(content_str, st.guideline_draft),
      current_task |-> "guidelines",
      posts_examples |-> st.posts_examples,
      app_context |-> st.app_context]

\* variant: the new draft is extracted against the text sent to the model
process_guidelines_draft_from_prompt(st, response) ==
  LET content_str == ContentStr(response, GuidelinesFallback)
  IN [messages |-> <<AIMessage(content_str)>>,
      guideline_draft |->
        extract_guideline_updates(
          content_str,
          IF st.guideline_draft = <<>> THEN <<>>
          ELSE PromptText(GuidelinesPrompt(st))),
      current_task |-> "guidelines",
      posts_examples |-> st.posts_examples,
      app_context |-> st.app_context]

\* variant: the handler builds its result from scratch and loses the examples
process_guidelines_reset_examples(st, response) ==
  LET content_str == ContentStr(response, GuidelinesFallback)
  IN [messages |-> <<AIMessage(content_str)>>,
      guideline_draft |-> extract_guideline_updates(content_str, st.guideline_draft),
      current_task |-> "guidelines",
      posts_examples |-> <<>>,
      app_context |-> st.app_context]

\* process_guidelines: the reply, the draft extracted from it, the rest as is
process_guidelines(st, response) ==
  LET content_str == ContentStr(response, GuidelinesFallback)
  IN [messages |-> <<AIMessage(content_str)>>,
      guideline_draft |-> extract_guideline_updates(content_str, st.guideline_draft),
      current_task |-> "guidelines",
      posts_examples |-> st.posts_examples,
      app_context |-> st.app_context]

\* variant: the handler returns no draft, the channel falls back to ""
process_app_info_reset_draft(st, response) ==
  LET content_str == ContentStr(response, AppInfoFallback)
  IN [messages |-> <<AIMessage(content_str)>>,
      guideline_draft |-> <<>>,
      current_task |-> "app_info",
      posts_examples |-> st.posts_examples,
      app_context |-> APP_INFO]

\* process_app_info: the reply, the task and the static payload
process_app_info(st, response) ==
  LET content_str == ContentStr(response, AppInfoFallback)
  IN [messages |-> <<AIMessage(content_str)>>,
      guideline_draft |-> st.guideline_draft,
      current_task |-> "app_info",
      posts_examples |-> st.posts_examples,
      app_context |-> APP_INFO]

\* variant: the new examples are put in front of the stored ones
AddNewExamples_front(all_examples, new_examples) ==
  SelectSeq(new_examples,
            LAMBDA x : \A i \in 1..Len(all_examples) : all_examples[i] # x)
    \o all_examples

\* variant: every extracted example is appended
AddNewExamples_NoDedup(all_examples, new_examples) == all_examples \o new_examples

\* "Combine examples (adding only new ones)"
RECURSIVE AddNewExamples(_, _)
AddNewExamples(all_examples, new_examples) ==
  IF new_examples = <<>> THEN all_examples
  ELSE LET example == Head(new_examples)
       IN AddNewExamples(
            IF \E i \in 1..Len(all_examples) : all_examples[i] = example
            THEN all_examples
            ELSE Append(all_examples, example),
            Tail(new_examples))

\* process_post_examples with a draft: the model is called
GeneratePostExamples(st, response) ==
  LET content_str == ContentStr(response, PostExamplesFallback)
  IN [messages |-> <<AIMessage(content_str)>>,
      guideline_draft |-> st.guideline_draft,
      current_task |-> "post_examples",
      posts_examples |->
        AddNewExamples(st.posts_examples, extract_post_examples(content_str)),
      app_context |-> st.app_context]

\* variant: the refusal forgets the application context
RefusePostExamples_ResetContext(st) ==
  [messages |-> <<AIMessage(NoGuidelinesReply)>>,
   guideline_draft |-> <<>>,
   current_task |-> "post_examples",
   posts_examples |-> st.posts_examples,
   app_context |-> NoContext]

\* process_post_examples without a draft: the fixed refusal, no model call
RefusePostExamples(st) ==
  [messages |-> <<AIMessage(NoGuidelinesReply)>>,
   guideline_draft |-> <<>>,
   current_task |-> "post_examples",
   posts_examples |-> st.posts_examples,
   app_context |-> st.app_context]

\* variant: the blocks of the canned response are taken up as examples
updated_state_extracts(existing, detected_intent) ==
  [messages |-> <<AIMessage(DEBUG_RESPONSES(detected_intent))>>,
   guideline_draft |-> existing.guideline_draft,
   current_task |-> detected_intent,
   posts_examples |->
     AddNewExamples(existing.posts_examples,
                    extract_post_examples(DEBUG_RESPONSES(detected_intent))),
   app_context |-> existing.app_context]

\* _debug_process_message, "Create updated state"
updated_state(existing, detected_intent) ==
  [messages |-> <<AIMessage(DEBUG_RESPONSES(detected_intent))>>,
   guideline_draft |-> existing.guideline_draft,
   current_task |-> detected_intent,
   posts_examples |-> existing.posts_examples,
   app_context |-> existing.app_context]

\* variant: post and example are looked for before app and feature
DebugIntent_posts_first(message) ==
  LET message_lower == Lower(message)
  IN IF Contains(message_lower, "post") \/ Contains(message_lower, "example")
     THEN "post_examples"
     ELSE IF Contains(message_lower, "app") \/ Contains(message_lower, "feature")
     THEN "app_info"
     ELSE "guidelines"

\* _debug_process_message, "Simple intent detection for testing"
DebugIntent(message) ==
  LET message_lower == Lower(message)
  IN IF Contains(message_lower, "app") \/ Contains(message_lower, "feature")
     THEN "app_info"
     ELSE IF Contains(message_lower, "post") \/ Contains(message_lower, "example")
     THEN "post_examples"
     ELSE "guidelines"

\* -------------------------------------------------------------- actions
\* the graph finished a superstep of caller t: the channel values become
\* st, the checkpoint of the thread is written, control moves to next
Superstep(t, st, next, a) ==
  /\ state' = [state EXCEPT ![t] = st]
  /\ memory' = Put(memory, thread_id(session_id[t]), st.messages)
  /\ pc' = [pc EXCEPT ![t] = next]
  /\ aux' = [aux EXCEPT ![t] = [a EXCEPT !.nodes = @ + 1]]
  /\ UNCHANGED <<debug_mode, in_memory_sessions, session_id, existing_state, turns>>
  /\ UNCHANGED api_vars

\* a model call of caller t raised inside node: graph.invoke raises and
\* process_message enters its except block
Raise(t, node, calls) ==
  /\ pc' = [pc EXCEPT ![t] = "error"]
  /\ aux' = [aux EXCEPT ![t].failed = node, ![t].classified = @ + calls]
  /\ UNCHANGED <<debug_mode, in_memory_sessions, memory, session_id,
                 existing_state, state, turns>>
  /\ UNCHANGED api_vars

\* process_message, normal mode, up to the start of graph.invoke: read the
\* stored state, build the input, apply it to the thread's checkpoint
ProcessMessage(t, sid, message, max, get_ok) ==
  /\ pc[t] = "idle"
  /\ turns < max
  /\ ~debug_mode
  /\ LET existing == ExistingState(sid, get_ok)
         input_state == [messages |-> <<HumanMessage(message)>>,
                         guideline_draft |-> existing.guideline_draft,
                         current_task |-> existing.current_task,
                         posts_examples |-> existing.posts_examples,
                         app_context |-> existing.app_context]
         loaded == Get(memory, thread_id(sid), <<>>)
         st == ApplyUpdate([NoState EXCEPT !.messages = loaded], input_state)
     IN /\ existing_state' = [existing_state EXCEPT ![t] = existing]
        /\ state' = [state EXCEPT ![t] = st]
        /\ memory' = Put(memory, thread_id(sid), st.messages)
        /\ aux' = [aux EXCEPT ![t] = [NoAux EXCEPT !.loaded = loaded,
                                               !.store = StoreRead(sid, get_ok),
                                               !.message = message]]
  /\ session_id' = [session_id EXCEPT ![t] = sid]
  /\ pc' = [pc EXCEPT ![t] = "router"]
  /\ turns' = turns + 1
  /\ UNCHANGED <<debug_mode, in_memory_sessions>>
  /\ UNCHANGED api_vars

\* _debug_process_message: no graph, no model call
DebugProcessMessage(t, sid, message, max, get_ok) ==
  /\ pc[t] = "idle"
  /\ turns < max
  /\ debug_mode
  /\ LET existing == ExistingState(sid, get_ok)
         detected_intent == DebugIntent(message)
         new == updated_state(existing, detected_intent)
     IN /\ existing_state' = [existing_state EXCEPT ![t] = existing]
        /\ state' = [state EXCEPT ![t] = new]
        /\ in_memory_sessions' =
             save_session_state(in_memory_sessions, sid, new)
        /\ in_memory_guidelines' =
             ArchiveAfterTurn(in_memory_guidelines, sid, new)
  /\ session_id' = [session_id EXCEPT ![t] = sid]
  /\ pc' = [pc EXCEPT ![t] = "return"]
  /\ aux' = [aux EXCEPT ![t] = [NoAux EXCEPT !.store = StoreRead(sid, get_ok),
                                            !.message = message]]
  /\ turns' = turns + 1
  /\ UNCHANGED <<debug_mode, memory>>
  /\ UNCHANGED <<last_call, saves, extraction>>

\* the router node followed by its conditional edge
RouterNode(t, responses) ==
  /\ pc[t] = "router"
  /\ LET st == state[t]
     IN \/ /\ RouterSkips(st)
           /\ LET new == ApplyUpdate(st, route_message(st, Failure))
                  next == router_function(new)
              IN Superstep(t, new, IF next = "END" THEN "save" ELSE next, aux[t])
        \/ /\ ~RouterSkips(st)
           /\ \E response \in responses :
                IF response.raises
                THEN Raise(t, "router", 1)
                ELSE LET new == ApplyUpdate(st, route_message(st, response))
                         next == router_function(new)
                     IN Superstep(t, new, IF next = "END" THEN "save" ELSE next,
                                  [aux[t] EXCEPT !.classified = @ + 1,
                                                 !.intent = IntentOf(response),
                                                 !.label =
                                                   TaskOfIntent(IntentOf(response))])

\* a handler node followed by its edge back to the router
Handled(t, update, calls, prompt, response) ==
  Superstep(t, ApplyUpdate(state[t], update), "router",
            [aux[t] EXCEPT !.handled = @ + 1, !.llm_calls = @ + calls,
                           !.intent = <<>>, !.prompt = prompt,
                           !.handler = pc[t], !.response = response])

GuidelinesNode(t, responses) ==
  /\ pc[t] = "guidelines"
  /\ \E response \in responses :
       IF response.raises THEN Raise(t, "guidelines", 0)
       ELSE Handled(t, process_guidelines(state[t], response), 1,
                    PromptText(GuidelinesPrompt(state[t])), response)

AppInfoNode(t, responses) ==
  /\ pc[t] = "app_info"
  /\ \E response \in responses :
       IF response.raises THEN Raise(t, "app_info", 0)
       ELSE Handled(t, process_app_info(state[t], response), 1,
                    PromptText(AppInfoPrompt(state[t])), response)

PostExamplesNode(t, responses) ==
  /\ pc[t] = "post_examples"
  /\ IF state[t].guideline_draft = <<>>
     THEN Handled(t, RefusePostExamples(state[t]), 0, <<>>, TextResponse(<<>>))
     ELSE \E response \in responses :
            IF response.raises THEN Raise(t, "post_examples", 0)
            ELSE Handled(t, GeneratePostExamples(state[t], response), 1,
                         PromptText(PostExamplesPrompt(state[t])), response)

\* variant: a save that fails has written the state all the same
TrySaveSessionState_writes(sessions, sid, st, save_ok) ==
  save_session_state(sessions, sid, st)

\* DatabaseManager.save_session_state with its try/except: a save that
\* fails is logged, returns False and leaves the dictionary as it was
TrySaveSessionState(sessions, sid, st, save_ok) ==
  IF save_ok THEN save_session_state(sessions, sid, st) ELSE sessions

\* process_message after graph.invoke returned: the result is saved, the
\* outcome of the save is not looked at
Save(t, save_ok) ==
  /\ pc[t] = "save"
  /\ in_memory_sessions' =
       TrySaveSessionState(in_memory_sessions, session_id[t], state[t], save_ok)
  /\ in_memory_guidelines' =
       ArchiveAfterTurn(in_memory_guidelines, session_id[t], state[t])
  /\ pc' = [pc EXCEPT ![t] = "return"]
  /\ aux' = [aux EXCEPT ![t].save_ok = save_ok]
  /\ UNCHANGED <<debug_mode, memory, session_id, existing_state, state, turns>>
  /\ UNCHANGED <<last_call, saves, extraction>>

\* the save succeeds
SaveResult(t) == Save(t, TRUE)

\* the save fails
SaveFails(t) == Save(t, FALSE)

\* variant: the first message of the result is returned
ReturnValue_first(t) ==
  IF pc[t] = "error" THEN ErrorReply
  ELSE state[t].messages[1].content

\* what the call of caller t is about to return
ReturnValue(t) ==
  IF pc[t] = "error" THEN ErrorReply
  ELSE state[t].messages[Len(state[t].messages)].content

\* process_message returns (the reply, or the apology of the except block)
Return(t) ==
  /\ pc[t] \in {"return", "error"}
  /\ pc' = [pc EXCEPT ![t] = "idle"]
  /\ session_id' = [session_id EXCEPT ![t] = "s1"]
  /\ existing_state' = [existing_state EXCEPT ![t] = DefaultStored]
  /\ state' = [state EXCEPT ![t] = NoState]
  /\ aux' = [aux EXCEPT ![t] = NoAux]
  /\ UNCHANGED <<debug_mode, in_memory_sessions, memory, turns>>
  /\ UNCHANGED api_vars

\* variant: an entry that exists is not overwritten (dict.setdefault)
save_guideline_keep_first(guidelines, sid, guideline) ==
  IF sid \in DOMAIN guidelines THEN guidelines ELSE Put(guidelines, sid, guideline)

\* DatabaseManager.save_guideline: the archive entry of sid becomes guideline
save_guideline(guidelines, sid, guideline) == Put(guidelines, sid, guideline)

\* variant: no except block, a failure of the store reaches the caller
TrySaveGuideline_no_except(guidelines, sid, guideline, store_ok) ==
  IF store_ok
  THEN [guidelines |-> save_guideline(guidelines, sid, guideline),
        returns |-> TRUE, raises |-> FALSE]
  ELSE [guidelines |-> guidelines, returns |-> FALSE, raises |-> TRUE]

\* DatabaseManager.save_guideline with its try / except: the assignment is
\* the first statement of the try block, a failure of it is logged and
\* answered with False
TrySaveGuideline(guidelines, sid, guideline, store_ok) ==
  IF store_ok
  THEN [guidelines |-> save_guideline(guidelines, sid, guideline),
        returns |-> TRUE, raises |-> FALSE]
  ELSE [guidelines |-> guidelines, returns |-> FALSE, raises |-> FALSE]

\* DatabaseManager.get_guideline: dict.get, nothing (None) for an unknown
\* id and from the except block; the result is a sequence of no or one text
db_get_guideline(sid, store_ok) ==
  IF store_ok /\ sid \in DOMAIN in_memory_guidelines
  THEN <<in_memory_guidelines[sid]>>
  ELSE <<>>

\* ContentPlannerAgent.get_guideline: db_manager.get_guideline(id) or ""
get_guideline(sid, store_ok) ==
  LET found == db_get_guideline(sid, store_ok)
  IN IF found = <<>> \/ found[1] = <<>> THEN <<>> ELSE found[1]

\* variant: the examples are never handed out
get_post_examples_none(sid) == <<>>

\* ContentPlannerAgent.get_post_examples: the stored examples, [] when the
\* store has nothing for the id
get_post_examples(sid) ==
  IF sid \in DOMAIN in_memory_sessions
  THEN in_memory_sessions[sid].posts_examples
  ELSE <<>>

\* texts a client archives
GuidelineTexts == { <<>>, <<"a">>, <<"b">> }

ApiCall(max, call) ==
  /\ turns < max
  /\ turns' = turns + 1
  /\ last_call' = call
  /\ UNCHANGED <<debug_mode, memory, pc, session_id, existing_state, state, aux,
                 extraction>>

SaveGuideline(sid, guideline, max, store_ok) ==
  LET saved == TrySaveGuideline(in_memory_guidelines, sid, guideline, store_ok)
  IN /\ ApiCall(max, [op |-> "save_guideline", sid |-> sid, text |-> guideline,
                      list |-> <<>>, ok |-> saved.returns,
                      store_ok |-> store_ok, raised |-> saved.raises])
     /\ in_memory_guidelines' = saved.guidelines
     /\ saves' = IF store_ok
                 THEN Put(saves, sid, Append(Get(saves, sid, <<>>), guideline))
                 ELSE saves
     /\ UNCHANGED in_memory_sessions

GetGuideline(sid, max, store_ok) ==
  /\ ApiCall(max, [op |-> "get_guideline", sid |-> sid,
                   text |-> get_guideline(sid, store_ok), list |-> <<>>,
                   ok |-> TRUE, store_ok |-> store_ok, raised |-> FALSE])
  /\ UNCHANGED <<in_memory_sessions, in_memory_guidelines, saves>>

GetPostExamples(sid, max) ==
  /\ ApiCall(max, [op |-> "get_post_examples", sid |-> sid, text |-> <<>>,
                   list |-> get_post_examples(sid), ok |-> TRUE,
                   store_ok |-> TRUE, raised |-> FALSE])
  /\ UNCHANGED <<in_memory_sessions, in_memory_guidelines, saves>>

\* the steps of a call, with the model's replies drawn from the given sets
Step(t, routerResponses, handlerResponses, appInfoResponses) ==
  \/ RouterNode(t, routerResponses)
  \/ GuidelinesNode(t, handlerResponses)
  \/ AppInfoNode(t, appInfoResponses)
  \/ PostExamplesNode(t, handlerResponses)
  \/ SaveResult(t)
  \/ Return(t)

Begin(t, sessions, max, reads) ==
  \E sid \in sessions, get_ok \in reads :
    \/ \E message \in UserTexts : ProcessMessage(t, sid, message, max, get_ok)
    \/ \E message \in DebugTexts :
         DebugProcessMessage(t, sid, message, max, get_ok)

\* one conversation, one request at a time
Next ==
  \/ Begin("t1", {"s1"}, MaxTurns, {TRUE})
  \/ Step("t1", RouterResponses, HandlerResponses, AppInfoResponses)

Spec == Init /\ [][Next]_vars

\* the same, with a call that is under way always taking its next step:
\* graph.invoke and process_message run to their end once started, every
\* model call returning or raising
NextLive ==
  \/ Begin("t1", {"s1"}, MaxLiveTurns, {TRUE})
  \/ Step("t1", RouterResponses, HandlerResponses, AppInfoResponses)

SpecLive ==
  /\ Init
  /\ [][NextLive]_vars
  /\ WF_vars(Step("t1", RouterResponses, HandlerResponses, AppInfoResponses))

\* one conversation, with reads of the session store that may fail
NextFaulty ==
  \/ Begin("t1", {"s1"}, MaxTurns, BOOLEAN)
  \/ Step("t1", RouterResponses, HandlerResponses, AppInfoResponses)

SpecFaulty == Init /\ [][NextFaulty]_vars

\* requests of two callers on one session, interleaving at will; the model
\* always answers, with one of a few replies
ConcRouterResponses ==
  { TextResponse(<<"guidelines">>), TextResponse(<<"post_examples">>),
    TextResponse(<<"sp", "APP_INFO", "nl">>) }

ConcHandlerResponses ==
  { TextResponse(<<"GS", "sp", "a", "sp", "GE", "PS", "sp", "a", "nl", "PE">>),
    TextResponse(<<"GS", "b", "GE", "PS", "b", "PE">>) }

ConcAppInfoResponses == { TextResponse(<<"a">>) }

NextConc ==
  \E t \in Callers :
    \/ Begin(t, {"s1"}, MaxConcTurns, {TRUE})
    \/ Step(t, ConcRouterResponses, ConcHandlerResponses, ConcAppInfoResponses)

SpecConc == Init /\ [][NextConc]_vars

\* one conversation whose replies hold several example blocks, some of
\* them repeated
ExampleRouterResponses ==
  { TextResponse(<<"guidelines">>), TextResponse(<<"post_examples">>),
    TextResponse(<<"app_info">>) }

ExampleHandlerResponses ==
  { TextResponse(<<"GS", "a", "GE", "PS", "a", "PE">>),
    TextResponse(<<"PS", "b", "PE", "x", "PS", "a", "PE", "nl",
                   "PS", "sp", "b", "PE", "PS", "x", "nl", "PE">>),
    TextResponse(<<"a">>) }

NextExamples ==
  \/ Begin("t1", {"s1"}, MaxExampleTurns, {TRUE})
  \/ Step("t1", ExampleRouterResponses, ExampleHandlerResponses,
          ConcAppInfoResponses)

SpecExamples == Init /\ [][NextExamples]_vars

\* one conversation, with saves of the session state that may fail
NextSaveFaulty ==
  \/ Begin("t1", {"s1"}, MaxSaveTurns, {TRUE})
  \/ Step("t1", ConcRouterResponses, ConcHandlerResponses, ConcAppInfoResponses)
  \/ SaveFails("t1")

SpecSaveFaulty == Init /\ [][NextSaveFaulty]_vars

\* two sessions, each with a caller of its own, turns and archive calls in
\* any interleaving
SessionOf(t) == IF t = "t1" THEN "s1" ELSE "s2"

Archive(sessions, max, oks) ==
  \E sid \in sessions, store_ok \in oks :
    \/ \E guideline \in GuidelineTexts :
         SaveGuideline(sid, guideline, max, store_ok)
    \/ GetGuideline(sid, max, store_ok)
    \/ GetPostExamples(sid, max)

NextApi ==
  \/ \E t \in Callers :
       \/ Begin(t, {SessionOf(t)}, MaxApiCalls, {TRUE})
       \/ Step(t, ConcRouterResponses, ConcHandlerResponses, ConcAppInfoResponses)
  \/ Archive(Sessions, MaxApiCalls, {TRUE})

SpecApi == Init /\ [][NextApi]_vars

\* archive calls on two sessions, with a store whose operations may fail
NextArchive == Archive(Sessions, MaxApiCalls, BOOLEAN)

SpecArchive == Init /\ [][NextArchive]_vars

\* extract_guideline_updates on its own: replies of the model and drafts
\* that make every branch of the function run
ExtractResponses ==
  { <<"a">>,
    <<"GS", "sp", "a", "nl", "GE">>,
    <<"GS", "a", "GE", "x", "GS", "sp", "b", "sp", "GE", "x">>,
    <<"GS", "a", "GS", "b", "GE", "b", "GE">>,
    <<"GS", "sp", "GE">>,
    <<"GS", "a">>,
    <<"GE", "a", "GS">>,
    <<"W", "a">>,
    <<"W", "a", "b">>,
    <<"sp", "W", "a", "sp">>,
    <<"W", "a", "b", "nl", "nl", "a", "nl", "sp", "nl", "sp", "W", "b", "b", "nl">>,
    <<"W", "a", "nl", "W", "a">>,
    <<"GS", "W", "a", "b", "nl", "nl", "W", "b", "b">> }

ExtractDrafts == { <<>>, <<"a">>, <<"b">> \o BlankLine \o <<"a">> }

InitExtract ==
  /\ debug_mode = FALSE
  /\ in_memory_sessions = <<>>
  /\ memory = <<>>
  /\ pc = [t \in Callers |-> "idle"]
  /\ session_id = [t \in Callers |-> "s1"]
  /\ existing_state = [t \in Callers |-> DefaultStored]
  /\ state = [t \in Callers |-> NoState]
  /\ aux = [t \in Callers |-> NoAux]
  /\ turns = 0
  /\ in_memory_guidelines = <<>>
  /\ last_call = NoCall
  /\ saves = <<>>
  /\ \E response \in ExtractResponses, current_draft \in ExtractDrafts :
       extraction = [NoExtraction EXCEPT !.response = response,
                                         !.current_draft = current_draft]

\* the function is applied to the arguments at hand
ExtractGuidelineUpdates ==
  /\ ~extraction.done
  /\ extraction' =
       [extraction EXCEPT
          !.result = extract_guideline_updates(extraction.response,
                                               extraction.current_draft),
          !.done = TRUE,
          !.applied = @ + 1]
  /\ UNCHANGED <<debug_mode, in_memory_sessions, memory, pc, session_id,
                 existing_state, state, aux, turns, in_memory_guidelines,
                 last_call, saves>>

\* the next reply is extracted against the draft the last one gave
NextReply(max) ==
  /\ extraction.done
  /\ extraction.applied < max
  /\ \E response \in ExtractResponses :
       extraction' =
         [extraction EXCEPT !.response = response,
                            !.current_draft = extraction.result,
                            !.result = <<>>,
                            !.done = FALSE]
  /\ UNCHANGED <<debug_mode, in_memory_sessions, memory, pc, session_id,
                 existing_state, state, aux, turns, in_memory_guidelines,
                 last_call, saves>>

NextExtract == ExtractGuidelineUpdates \/ NextReply(MaxExtractions)

SpecExtract == InitExtract /\ [][NextExtract]_vars

\* ------------------------------------------------------------ properties
RECURSIVE NumAI(_)
NumAI(messages) ==
  IF messages = <<>> THEN 0
  ELSE (IF IsAIMessage(Head(messages)) THEN 1 ELSE 0) + NumAI(Tail(messages))

LastMessage(t) == state[t].messages[Len(state[t].messages)]

Stored(st) ==
  [guideline_draft |-> st.guideline_draft, current_task |-> st.current_task,
   posts_examples |-> st.posts_examples, app_context |-> st.app_context]

NoDuplicates(seq) ==
  \A i, j \in 1..Len(seq) : seq[i] = seq[j] => i = j

\* C1: when the graph of a normal-mode turn has reached END (all its model
\* calls succeeded), the history holds exactly one machine message more
\* than the history the turn started from.
C1_OneMachineMessagePerTurn ==
  \A t \in Callers :
    pc[t] = "save" =>
      NumAI(state[t].messages) = NumAI(aux[t].loaded) + 1

\* C2: within one call the classifier is invoked at most once and at most
\* one handler runs; the router step that follows a handler neither
\* classifies nor dispatches, the graph ends.
C2_SingleRoundTrip ==
  /\ [](\A t \in Callers : aux[t].classified <= 1 /\ aux[t].handled <= 1)
  /\ [][\A t \in Callers :
          (pc[t] = "router" /\ aux[t].handled = 1 /\ pc'[t] # pc[t]) =>
             /\ pc'[t] = "save"
             /\ aux'[t].classified = aux[t].classified
             /\ aux'[t].handled = aux[t].handled]_vars

C2_Witness ==
  \E t \in Callers :
    pc[t] = "save" /\ aux[t].classified = 1 /\ aux[t].handled = 1

\* C3: over successive turns of a session the stored guideline draft never
\* shrinks: the draft stored before a step is a prefix of the one stored
\* after it.
C3_DraftNeverShrinks ==
  [][\A s \in Sessions :
       IsPrefix(Get(in_memory_sessions, s, DefaultStored).guideline_draft,
                Get(in_memory_sessions', s, DefaultStored).guideline_draft)]_vars

C3_Witness ==
  /\ "s1" \in DOMAIN in_memory_sessions
  /\ in_memory_sessions["s1"].guideline_draft = <<"a">> \o BlankLine \o <<"b">>

\* C4: when the model call of a handler fails, the caller gets the apology
\* and the session is as it was before the call: same history, same
\* stored draft, task, examples and context.
C4_FailedTurnLeavesNoTrace ==
  \A t \in Callers :
    (pc[t] = "error" /\ aux[t].failed \in Labels) =>
      /\ ReturnValue(t) = ErrorReply
      /\ Get(memory, session_id[t], <<>>) = aux[t].loaded
      /\ get_session_state(session_id[t]) = existing_state[t]

\* C5: a failed classifier call is recovered inside the turn; the call
\* never ends in the error reply because of it.
C5_ClassifierFailureRecovered ==
  \A t \in Callers : pc[t] = "error" => aux[t].failed # "router"

\* C6: current_task is one of the three labels in every graph state, in
\* every state read from the store and in every stored state.
C6_TaskAlwaysValid ==
  /\ \A t \in Callers :
       state[t].current_task \in Labels /\ existing_state[t].current_task \in Labels
  /\ \A s \in DOMAIN in_memory_sessions :
       in_memory_sessions[s].current_task \in Labels

C6_Witness ==
  \E t \in Callers :
    /\ pc[t] = "guidelines"
    /\ aux[t].intent = <<"x">>
    /\ state[t].current_task = "guidelines"

\* C7: after a classification the task is the first of guidelines,
\* app_info, post_examples that occurs in the lower-cased output, and
\* guidelines when none occurs.
C7_ClassifierPriority ==
  \A t \in Callers :
    (pc[t] \in Labels /\ aux[t].classified = 1) =>
      LET words == {aux[t].intent[i] : i \in 1..Len(aux[t].intent)}
          task == state[t].current_task
      IN /\ "guidelines" \in words => task = "guidelines"
         /\ ("guidelines" \notin words /\ "app_info" \in words) => task = "app_info"
         /\ (words \cap {"guidelines", "app_info"} = {} /\ "post_examples" \in words)
              => task = "post_examples"
         /\ words \cap Labels = {} => task = "guidelines"
         /\ pc[t] = task

C7_Witness ==
  \E t \in Callers :
    /\ pc[t] = "guidelines"
    /\ aux[t].intent = <<"app_info", "sp", "guidelines">>

\* C8: posts_examples never holds the same string twice, in a graph state
\* or in the store.
C8_NoDuplicateExamples ==
  /\ \A t \in Callers : NoDuplicates(state[t].posts_examples)
  /\ \A s \in DOMAIN in_memory_sessions :
       NoDuplicates(in_memory_sessions[s].posts_examples)

\* a later post_examples turn got a reply repeating, twice, a block the
\* session already holds
C8_Witness ==
  \E t \in Callers :
    /\ pc[t] = "save"
    /\ state[t].current_task = "post_examples"
    /\ existing_state[t].posts_examples = << <<"b">> >>
    /\ Len(extract_post_examples(LastMessage(t).content)) = 2
    /\ state[t].posts_examples = << <<"b">> >>

\* C9: the post_examples handler, run with an empty draft, calls no model,
\* appends exactly the fixed refusal and leaves examples, draft and context
\* as they are.
C9_RefusalWithoutDraft ==
  [][\A t \in Callers :
       (pc[t] = "post_examples" /\ state[t].guideline_draft = <<>>
          /\ pc'[t] # pc[t]) =>
         /\ aux'[t].llm_calls = aux[t].llm_calls
         /\ state'[t].messages =
              Append(state[t].messages, AIMessage(NoGuidelinesReply))
         /\ state'[t].posts_examples = state[t].posts_examples
         /\ state'[t].guideline_draft = state[t].guideline_draft
         /\ state'[t].app_context = state[t].app_context]_vars

C9_Witness ==
  \E t \in Callers :
    /\ pc[t] = "router"
    /\ aux[t].handled = 1
    /\ aux[t].llm_calls = 0
    /\ LastMessage(t) = AIMessage(NoGuidelinesReply)
    /\ state[t].app_context = APP_INFO

\* C10: when two normal-mode calls on one session both read the stored
\* state before either writes, and both change it, the state stored once
\* both have written is the result of one of them alone: the other's
\* contribution is lost.
C10_LastWriteWins ==
  \A t, u \in Callers :
    ( /\ t # u
      /\ ~debug_mode
      /\ pc[t] = "return" /\ pc[u] = "return"
      /\ session_id[t] = session_id[u]
      /\ existing_state[t] = existing_state[u]
      /\ Stored(state[t]) # existing_state[t]
      /\ Stored(state[u]) # existing_state[u] ) =>
    in_memory_sessions[session_id[t]] \in {Stored(state[t]), Stored(state[u])}

C10_Witness ==
  /\ ~debug_mode
  /\ pc["t1"] = "return" /\ pc["t2"] = "return"
  /\ session_id["t1"] = session_id["t2"]
  /\ existing_state["t1"].guideline_draft = <<>>
  /\ existing_state["t2"].guideline_draft = <<>>
  /\ state["t1"].guideline_draft = <<"a">>
  /\ state["t2"].guideline_draft = <<"b">>
  /\ in_memory_sessions[session_id["t1"]].guideline_draft = <<"b">>

\* the sessions a step operates on: the session of each caller that moves,
\* and the session of an archive call
Operated ==
  { session_id'[t] : t \in { c \in Callers : pc[c] = "idle" /\ pc'[c] # "idle" } }
  \cup { session_id[t] : t \in { c \in Callers : pc[c] # "idle" /\ pc'[c] # pc[c] } }
  \cup (IF last_call' # last_call THEN {last_call'.sid} ELSE {})

Entry(dict, sid) == IF sid \in DOMAIN dict THEN <<dict[sid]>> ELSE <<>>

\* C11: a step changes the stored state, the history or the archived
\* guideline of a session only when it is an operation on that session:
\* whatever is kept for any other session id is as it was.
C11_SessionsIndependent ==
  [][\A s \in Sessions :
       s \notin Operated =>
         /\ Entry(in_memory_sessions', s) = Entry(in_memory_sessions, s)
         /\ Entry(memory', s) = Entry(memory, s)
         /\ Entry(in_memory_guidelines', s) = Entry(in_memory_guidelines, s)]_vars

C11_Witness ==
  /\ "s1" \in DOMAIN in_memory_sessions
  /\ "s2" \in DOMAIN in_memory_sessions
  /\ in_memory_sessions["s1"] # in_memory_sessions["s2"]
  /\ Entry(memory, "s1") # Entry(memory, "s2")
  /\ Entry(in_memory_guidelines, "s1") # Entry(in_memory_guidelines, "s2")
\* the history the turn of caller t was started on ends with a machine message
LoadedTailIsAI(t) ==
  aux[t].loaded # <<>> /\ IsAIMessage(aux[t].loaded[Len(aux[t].loaded)])

\* C12 as stated: a turn started on a history whose tail is a machine
\* message invokes neither the classifier nor a handler.
C12_MachineTailEndsTurn ==
  \A t \in Callers :
    (pc[t] # "idle" /\ LoadedTailIsAI(t)) =>
      aux[t].classified = 0 /\ aux[t].handled = 0

\* C12: the router ends the turn without classifier or handler exactly when
\* the last message of the state it is given is a machine message, else it
\* classifies; before a handler has replied in the turn the last message is
\* the user's new one, whatever the tail of the prior turn was.
C12_GuardOnLastMessage ==
  /\ [][\A t \in Callers :
          (pc[t] = "router" /\ pc'[t] # pc[t]) =>
             IF IsAIMessage(LastMessage(t))
             THEN /\ pc'[t] = "save"
                  /\ aux'[t].classified = aux[t].classified
                  /\ aux'[t].handled = aux[t].handled
             ELSE /\ pc'[t] \in Labels \cup {"error"}
                  /\ aux'[t].classified = aux[t].classified + 1]_vars
  /\ [](\A t \in Callers :
          (pc[t] = "router" /\ aux[t].handled = 0) =>
             ~IsAIMessage(LastMessage(t)))

C12_Witness ==
  \E t \in Callers :
    /\ LoadedTailIsAI(t)
    /\ pc[t] = "save"
    /\ aux[t].classified = 1
    /\ aux[t].handled = 1
\* C13: a call that has started returns: the graph run executes at most
\* three nodes (router, handler, router), it reaches END after exactly
\* three when no model call raises, and the call gets back to its caller.
C13_EveryCallTerminates ==
  /\ [](\A t \in Callers :
          /\ aux[t].nodes <= 3
          /\ pc[t] = "save" => aux[t].nodes = 3)
  /\ \A t \in Callers : (pc[t] = "router") ~> (pc[t] \in {"save", "error"})
  /\ \A t \in Callers : (pc[t] # "idle") ~> (pc[t] = "idle")

C13_Witness ==
  \E t \in Callers :
    /\ pc[t] = "save"
    /\ aux[t].nodes = 3
    /\ aux[t].loaded # <<>>
    /\ state[t].current_task = "post_examples"
\* the examples of seq that old does not hold
NewExamples(old, seq) ==
  SelectSeq(seq, LAMBDA x : \A i \in 1..Len(old) : old[i] # x)

\* C14: the guidelines handler leaves posts_examples and app_context as
\* they are, the post_examples handler leaves guideline_draft and
\* app_context as they are; when the draft is not empty and the reply holds
\* one block that is new, posts_examples gains that block at its end and
\* nothing else.
C14_HandlersKeepOtherFields ==
  [][\A t \in Callers :
       /\ (pc[t] = "guidelines" /\ pc'[t] = "router") =>
            /\ state'[t].posts_examples = state[t].posts_examples
            /\ state'[t].app_context = state[t].app_context
       /\ (pc[t] = "post_examples" /\ pc'[t] = "router") =>
            /\ state'[t].guideline_draft = state[t].guideline_draft
            /\ state'[t].app_context = state[t].app_context
            /\ LET reply == state'[t].messages[Len(state'[t].messages)].content
                   new == NewExamples(state[t].posts_examples,
                                      extract_post_examples(reply))
               IN (state[t].guideline_draft # <<>> /\ Len(new) = 1) =>
                    state'[t].posts_examples =
                      Append(state[t].posts_examples, new[1])]_vars

C14_Witness ==
  \E t \in Callers :
    /\ pc[t] = "router"
    /\ aux[t].handled = 1
    /\ state[t].current_task = "post_examples"
    /\ existing_state[t].posts_examples = <<>>
    /\ state[t].posts_examples = << <<"a">> >>
    /\ state[t].guideline_draft # <<>>
    /\ state[t].app_context = APP_INFO

\* C15: a normal-mode turn the classifier sends to app_info stores the task
\* app_info, the static payload as context, and the draft and the examples
\* the turn found in the store; on a session the store did not know that is
\* the empty draft and no examples.
C15_AppInfoTurn ==
  \A t \in Callers :
    (pc[t] = "return" /\ ~debug_mode /\ state[t].current_task = "app_info") =>
      /\ in_memory_sessions[session_id[t]] =
           [existing_state[t] EXCEPT !.current_task = "app_info",
                                     !.app_context = APP_INFO]
      /\ aux[t].store = "absent" =>
           in_memory_sessions[session_id[t]] =
             [guideline_draft |-> <<>>, current_task |-> "app_info",
              posts_examples |-> <<>>, app_context |-> APP_INFO]

C15_Witness ==
  \E t \in Callers :
    /\ pc[t] = "return" /\ ~debug_mode
    /\ state[t].current_task = "app_info"
    /\ existing_state[t].current_task = "post_examples"
    /\ existing_state[t].guideline_draft # <<>>
    /\ existing_state[t].posts_examples # <<>>
    /\ existing_state[t].app_context = NoContext
\* C16: the history of a session only grows at its end: in every step the
\* history kept for the session before the step is a prefix of the one kept
\* after it, and so is the history of a run of the graph from one step of
\* the turn to the next.
C16_HistoryAppendOnly ==
  [][/\ \A s \in Sessions :
          IsPrefix(Get(memory, s, <<>>), Get(memory', s, <<>>))
     /\ \A t \in Callers :
          (pc[t] \in {"router"} \cup Labels /\ pc'[t] # "idle") =>
             IsPrefix(state[t].messages, state'[t].messages)]_vars

C16_Witness ==
  \E t \in Callers :
    /\ pc[t] = "save"
    /\ aux[t].loaded # <<>>
    /\ memory[session_id[t]] = state[t].messages
    /\ IsPrefix(aux[t].loaded, state[t].messages)
    /\ NumAI(state[t].messages) > NumAI(aux[t].loaded)
\* the text carries words that only a handler's prompt context has
Augmented(text) ==
  \E word \in {"CURRENT_DRAFT", "GENERATE_FROM", "QUESTION", "APP_INFORMATION"} :
    Contains(text, word)

\* C17: the context a handler puts before the user's text for the model
\* call stays out of the history: every human message kept for a session,
\* and every one in the state of a running turn, holds a text the user
\* sent, as sent, also after turns whose prompt carried a context.
C17_PromptStaysOutOfHistory ==
  /\ \A s \in DOMAIN memory :
       \A i \in 1..Len(memory[s]) :
         ~IsAIMessage(memory[s][i]) =>
           /\ memory[s][i].content \in UserTexts
           /\ ~Augmented(memory[s][i].content)
  /\ \A t \in Callers :
       \A i \in 1..Len(state[t].messages) :
         ~IsAIMessage(state[t].messages[i]) =>
           state[t].messages[i].content \in UserTexts

C17_Witness ==
  \E t \in Callers :
    /\ pc[t] = "return"
    /\ state[t].current_task = "guidelines"
    /\ Augmented(aux[t].prompt)
    /\ memory[session_id[t]] = state[t].messages
\* the step is a call of save_guideline, get_guideline or get_post_examples
IsCall == turns' # turns /\ pc' = pc

\* C18: get_guideline returns the text of the latest save_guideline call
\* for the id, and the empty text for an id nothing was saved for.
C18_ArchiveRoundTrip ==
  [][(IsCall /\ last_call'.op = "get_guideline") =>
       LET saved == Get(saves, last_call'.sid, <<>>)
       IN last_call'.text = IF saved = <<>> THEN <<>> ELSE saved[Len(saved)]]_vars

C18_Witness ==
  /\ last_call.op = "get_guideline"
  /\ Len(Get(saves, last_call.sid, <<>>)) = 2
  /\ saves[last_call.sid][1] # saves[last_call.sid][2]
  /\ last_call.text = <<"b">>

\* C19: get_post_examples returns the examples the store holds for the id,
\* the empty list when it holds nothing for it, and the call changes
\* nothing that is stored.
C19_GetPostExamples ==
  [][(IsCall /\ last_call'.op = "get_post_examples") =>
       /\ last_call'.list =
            IF last_call'.sid \in DOMAIN in_memory_sessions
            THEN in_memory_sessions[last_call'.sid].posts_examples
            ELSE <<>>
       /\ in_memory_sessions' = in_memory_sessions
       /\ in_memory_guidelines' = in_memory_guidelines
       /\ memory' = memory]_vars

C19_Witness ==
  /\ last_call.op = "get_post_examples"
  /\ last_call.list # <<>>
  /\ last_call.list = in_memory_sessions[last_call.sid].posts_examples
\* C20: a turn whose read of the session store found nothing, or failed,
\* works on the default state: empty draft, task guidelines, no examples,
\* empty context, the same in both cases; the turn then runs as any other
\* (one classification, one handler, and post examples are refused for
\* want of a draft).
C20_DefaultsWithoutStoredState ==
  \A t \in Callers :
    (pc[t] # "idle" /\ aux[t].store \in {"absent", "failed"}) =>
      /\ existing_state[t] =
           [guideline_draft |-> <<>>, current_task |-> "guidelines",
            posts_examples |-> <<>>, app_context |-> {}]
      /\ (pc[t] = "router" /\ aux[t].nodes = 0) =>
           Stored(state[t]) = existing_state[t]
      /\ pc[t] = "save" => aux[t].classified = 1 /\ aux[t].handled = 1
      /\ (pc[t] = "save" /\ state[t].current_task = "post_examples") =>
           /\ LastMessage(t).content = NoGuidelinesReply
           /\ state[t].posts_examples = <<>>
      /\ (pc[t] = "return" /\ debug_mode) =>
           /\ state[t].guideline_draft = <<>>
           /\ state[t].posts_examples = <<>>

C20_Witness ==
  \E t \in Callers :
    /\ pc[t] = "save"
    /\ aux[t].store = "failed"
    /\ session_id[t] \in DOMAIN in_memory_sessions
    /\ in_memory_sessions[session_id[t]].guideline_draft # <<>>
    /\ state[t].current_task = "post_examples"
\* C21: save_guideline and get_guideline return to their caller also when
\* the operation on the store fails: save_guideline then returns False and
\* the archive is as it was, get_guideline returns the empty text.
C21_ArchiveCallsNeverRaise ==
  [][(IsCall /\ last_call'.op \in {"save_guideline", "get_guideline"}) =>
       /\ ~last_call'.raised
       /\ (last_call'.op = "save_guideline" /\ ~last_call'.store_ok) =>
            /\ last_call'.ok = FALSE
            /\ in_memory_guidelines' = in_memory_guidelines
       /\ (last_call'.op = "save_guideline" /\ last_call'.store_ok) =>
            last_call'.ok = TRUE
       /\ (last_call'.op = "get_guideline" /\ ~last_call'.store_ok) =>
            last_call'.text = <<>>]_vars

C21_Witness ==
  /\ last_call.op = "save_guideline"
  /\ ~last_call.store_ok
  /\ ~last_call.ok
  /\ last_call.text = <<"b">>
  /\ last_call.sid \in DOMAIN in_memory_guidelines
  /\ in_memory_guidelines[last_call.sid] = <<"a">>
\* the text holds a start marker with an end marker somewhere after it
HasMarkerPair(text) ==
  \E p, q \in 1..Len(text) : p < q /\ text[p] = "GS" /\ text[q] = "GE"

\* the last marked region of a text that holds one, trimmed
LastBlock(text) ==
  LET regions == FindAll(text, 1, "GS", "GE")
  IN Strip(regions[Len(regions)])

TwoBlocks == <<"GS", "a", "GE", "x", "GS", "sp", "b", "sp", "GE", "x">>

\* C22: when the reply holds marked regions, the result is built from the
\* last of them only, trimmed; with an empty draft the result is that
\* block and nothing else (regions "a" then " b " give "b").
C22_ExtractionLatestWins ==
  (extraction.done /\ HasMarkerPair(extraction.response)) =>
     /\ extraction.current_draft = <<>> =>
          extraction.result = LastBlock(extraction.response)
     /\ (extraction.current_draft = <<>> /\ extraction.response = TwoBlocks) =>
          extraction.result = <<"b">>
     /\ extraction.response = TwoBlocks =>
          /\ extraction.result # <<>>
          /\ extraction.result[Len(extraction.result)] = "b"
          /\ Len(extraction.result) = Len(extraction.current_draft)
               + (IF extraction.current_draft = <<>> THEN 1 ELSE 3)

C22_Witness ==
  /\ extraction.done
  /\ extraction.response = TwoBlocks
  /\ extraction.current_draft = <<>>
  /\ extraction.result = <<"b">>

\* C23: with a draft X that is not empty and a reply whose last marked
\* region trims to Y, the result is X, two line breaks, Y.
C23_ExtractionAppends ==
  (extraction.done /\ extraction.current_draft # <<>>
   /\ HasMarkerPair(extraction.response)) =>
     /\ extraction.result =
          extraction.current_draft \o <<"nl", "nl">>
            \o LastBlock(extraction.response)
     /\ IsPrefix(extraction.current_draft, extraction.result)
     /\ (extraction.current_draft = <<"a">> /\ extraction.response = TwoBlocks) =>
          extraction.result = <<"a", "nl", "nl", "b">>

C23_Witness ==
  /\ extraction.done
  /\ extraction.applied = 2
  /\ extraction.response = TwoBlocks
  /\ extraction.result = <<"a", "nl", "nl", "a", "nl", "nl", "b">>

\* C24: with a draft that is not empty and a reply without a start marker
\* followed by an end marker, the result is the draft; one such reply
\* after another leaves the draft as it is.
C24_ExtractionNoOp ==
  (extraction.done /\ extraction.current_draft # <<>>
   /\ ~HasMarkerPair(extraction.response)) =>
     extraction.result = extraction.current_draft

C24_Witness ==
  /\ extraction.done
  /\ extraction.applied = 2
  /\ extraction.current_draft = <<"b">> \o BlankLine \o <<"a">>
  /\ extraction.response = <<"W", "a", "b">>
  /\ extraction.result = extraction.current_draft

\* C25: with an empty draft and a reply without a marker pair, the result
\* is the sections of the reply (split at blank lines) whose trimmed length
\* is more than 50, in their order, joined by two line breaks: a section
\* of 50 is dropped, one of 51 kept, and with no such section the result
\* is empty.
C25_HeuristicFallback ==
  (extraction.done /\ extraction.current_draft = <<>>
   /\ ~HasMarkerPair(extraction.response)) =>
     /\ extraction.result =
          Join(SelectSeq(SplitSections(extraction.response),
                         LAMBDA sec : StrLen(Strip(sec)) > 50),
               <<"nl", "nl">>)
     /\ extraction.response = <<"W", "a">> => extraction.result = <<>>
     /\ extraction.response = <<"sp", "W", "a", "sp">> => extraction.result = <<>>
     /\ extraction.response = <<"W", "a", "b">> =>
          extraction.result = <<"W", "a", "b">>
     /\ extraction.response = <<"W", "a", "nl", "W", "a">> =>
          extraction.result = extraction.response
     /\ extraction.response =
          <<"W", "a", "b", "nl", "nl", "a", "nl", "sp", "nl", "sp", "W", "b", "b", "nl">> =>
          extraction.result =
            <<"W", "a", "b", "nl", "nl", "sp", "W", "b", "b", "nl">>

C25_Witness ==
  /\ extraction.done
  /\ extraction.current_draft = <<>>
  /\ extraction.response =
       <<"W", "a", "b", "nl", "nl", "a", "nl", "sp", "nl", "sp", "W", "b", "b", "nl">>
  /\ extraction.result = <<"W", "a", "b", "nl", "nl", "sp", "W", "b", "b", "nl">>
\* C26: after a guidelines turn the machine message of the turn is the text
\* the model replied, unchanged, and the draft, in the state and in the
\* store, is extract_guideline_updates of that text and the draft the turn
\* read from the store (a stored "a" and an update "a" give "a\n\na").
C26_GuidelinesTurn ==
  \A t \in Callers :
    (pc[t] \in {"save", "return"} /\ ~debug_mode /\ aux[t].handler = "guidelines") =>
      LET reply == LastMessage(t).content
          before == existing_state[t].guideline_draft
      IN /\ IsAIMessage(LastMessage(t))
         /\ ~aux[t].response.is_list => reply = aux[t].response.items[1]
         /\ state[t].guideline_draft = extract_guideline_updates(reply, before)
         /\ pc[t] = "return" =>
              in_memory_sessions[session_id[t]].guideline_draft =
                state[t].guideline_draft
         /\ (before = <<"a">> /\ HasMarkerPair(reply)
             /\ LastBlock(reply) = <<"a">>) =>
              state[t].guideline_draft = <<"a", "nl", "nl", "a">>

C26_Witness ==
  \E t \in Callers :
    /\ pc[t] = "return" /\ ~debug_mode
    /\ aux[t].handler = "guidelines"
    /\ existing_state[t].guideline_draft = <<"a">>
    /\ in_memory_sessions[session_id[t]].guideline_draft = <<"a", "nl", "nl", "b">>
\* C27: a save_guideline call leaves the stored state of every session (and
\* its history) as it is, and no step of a process_message call changes
\* the archive or what get_guideline returns for any id.
C27_ArchiveApartFromSession ==
  [][/\ (IsCall /\ last_call'.op = "save_guideline") =>
          /\ in_memory_sessions' = in_memory_sessions
          /\ memory' = memory
     /\ ~IsCall =>
          /\ in_memory_guidelines' = in_memory_guidelines
          /\ \A s \in Sessions : get_guideline(s, TRUE)' = get_guideline(s, TRUE)]_vars

C27_Witness ==
  /\ "s1" \in DOMAIN in_memory_guidelines
  /\ "s1" \in DOMAIN in_memory_sessions
  /\ in_memory_guidelines["s1"] = <<"b">>
  /\ in_memory_sessions["s1"].guideline_draft = <<"a">>
  /\ last_call.op = "save_guideline"
\* the user-authored messages of a history
NumHuman(messages) == Len(messages) - NumAI(messages)

\* C28: when the graph of a normal-mode turn has reached END, the history
\* holds exactly one user message more than the history the turn started
\* from.
C28_UserMessageOnce ==
  \A t \in Callers :
    pc[t] = "save" =>
      NumHuman(state[t].messages) = NumHuman(aux[t].loaded) + 1
\* the text holds one of the words, in any case
Mentions(text, words) == \E i \in 1..Len(text) : text[i] \in words

C30_TaskIsClassifierLabel ==
  \A t \in Callers :
    (pc[t] = "return" /\ ~debug_mode) =>
      /\ aux[t].label \in Labels
      /\ aux[t].handler = aux[t].label
      /\ in_memory_sessions[session_id[t]].current_task = aux[t].label

C30_Witness ==
  \E t \in Callers :
    /\ pc[t] = "return" /\ ~debug_mode
    /\ existing_state[t].current_task = "post_examples"
    /\ aux[t].label = "app_info"
    /\ aux[t].handler = "app_info"
    /\ in_memory_sessions[session_id[t]].current_task = "app_info"
\* the text the handler of the turn of caller t made its message from
HandlerReply(t) ==
  IF aux[t].handler = "post_examples" /\ aux[t].llm_calls = 0
  THEN NoGuidelinesReply
  ELSE ContentStr(aux[t].response,
                  IF aux[t].handler = "guidelines" THEN GuidelinesFallback
                  ELSE IF aux[t].handler = "app_info" THEN AppInfoFallback
                  ELSE PostExamplesFallback)

\* C31: a normal-mode call that succeeded returns the text of the message
\* the handler produced in this turn, a machine message, in every turn of
\* a session.
C31_ReplyIsThisTurnsMessage ==
  \A t \in Callers :
    (pc[t] = "return" /\ ~debug_mode) =>
      /\ aux[t].handled = 1
      /\ ReturnValue(t) = HandlerReply(t)
      /\ IsAIMessage(LastMessage(t))
      /\ LastMessage(t).content = HandlerReply(t)

C31_Witness ==
  \E t \in Callers :
    /\ pc[t] = "return" /\ ~debug_mode
    /\ LoadedTailIsAI(t)
    /\ aux[t].loaded[Len(aux[t].loaded)].content # ReturnValue(t)
    /\ ReturnValue(t) = <<"a">>
\* seq without the repetitions of its elements, in the order of their first
\* occurrences
RECURSIVE FirstOccurrences(_)
FirstOccurrences(seq) ==
  IF seq = <<>> THEN <<>>
  ELSE LET front == FirstOccurrences(SubSeq(seq, 1, Len(seq) - 1))
           last == seq[Len(seq)]
       IN IF \E i \in 1..Len(front) : front[i] = last THEN front
          ELSE Append(front, last)

\* the posts_examples stored for sid, empty when nothing is stored
StoredExamples(sessions, sid) ==
  IF sid \in DOMAIN sessions THEN sessions[sid].posts_examples ELSE <<>>

\* C32: when a post_examples turn is saved, the list of examples stored
\* before the turn is a prefix of the list stored after it, and what follows
\* the prefix is the blocks of the reply that were not stored, each once, in
\* the order of the reply.
C32_ExamplesOnlyGrow ==
  [][\A t \in Callers :
       (/\ pc[t] = "save" /\ pc'[t] = "return"
        /\ ~debug_mode
        /\ aux[t].handler = "post_examples") =>
         LET sid == session_id[t]
             before == StoredExamples(in_memory_sessions, sid)
             after == StoredExamples(in_memory_sessions', sid)
             blocks == extract_post_examples(LastMessage(t).content)
         IN /\ IsPrefix(before, after)
            /\ after = before \o FirstOccurrences(NewExamples(before, blocks))
    ]_vars

\* a turn on a session holding "a" whose reply has the blocks b, a, b, x
C32_Witness ==
  \E t \in Callers :
    /\ pc[t] = "return" /\ ~debug_mode
    /\ aux[t].handler = "post_examples"
    /\ existing_state[t].posts_examples = << <<"a">> >>
    /\ extract_post_examples(LastMessage(t).content)
         = << <<"b">>, <<"a">>, <<"b">>, <<"x">> >>
    /\ in_memory_sessions[session_id[t]].posts_examples
         = << <<"a">>, <<"b">>, <<"x">> >>
\* C33: a debug-mode turn leaves guideline_draft, posts_examples and
\* app_context of the stored session state as they were before it (the
\* defaults when nothing was stored), whatever the canned response holds.
C33_DebugTurnKeepsFields ==
  [][\A t \in Callers :
       (debug_mode /\ pc[t] = "idle" /\ pc'[t] = "return") =>
         LET sid == session_id'[t]
             before == Get(in_memory_sessions, sid, DefaultStored)
             after == in_memory_sessions'[sid]
         IN /\ after.guideline_draft = before.guideline_draft
            /\ after.posts_examples = before.posts_examples
            /\ after.app_context = before.app_context]_vars

\* a debug-mode post_examples turn, after an app_info turn, on an empty
\* draft: the canned response holds a block, nothing is stored from it
C33_Witness ==
  \E t \in Callers :
    /\ debug_mode /\ pc[t] = "return"
    /\ existing_state[t].current_task = "app_info"
    /\ in_memory_sessions[session_id[t]].current_task = "post_examples"
    /\ Len(extract_post_examples(LastMessage(t).content)) = 1
    /\ in_memory_sessions[session_id[t]].guideline_draft = <<>>
    /\ in_memory_sessions[session_id[t]].posts_examples = <<>>
\* C34: when the save at the end of a turn fails, the call still goes on
\* to return the handler's reply, and the session store holds for the id
\* what it held when the turn began: the record read then, or nothing.
C34_FailedSaveKeepsStore ==
  [][\A t \in Callers :
       (pc[t] = "save" /\ pc'[t] # "save" /\ ~aux'[t].save_ok) =>
         /\ pc'[t] = "return"
         /\ state'[t].messages[Len(state'[t].messages)].content
              = HandlerReply(t)
         /\ in_memory_sessions' = in_memory_sessions
         /\ IF aux[t].store = "found"
            THEN /\ session_id[t] \in DOMAIN in_memory_sessions'
                 /\ in_memory_sessions'[session_id[t]] = existing_state[t]
            ELSE session_id[t] \notin DOMAIN in_memory_sessions']_vars

\* the save failed at the end of a turn that changed the draft of a
\* session stored before
C34_Witness ==
  \E t \in Callers :
    /\ pc[t] = "return" /\ ~aux[t].save_ok
    /\ aux[t].store = "found"
    /\ aux[t].handler = "guidelines"
    /\ state[t].guideline_draft # existing_state[t].guideline_draft
    /\ in_memory_sessions[session_id[t]].guideline_draft
         = existing_state[t].guideline_draft
    /\ ReturnValue(t) = HandlerReply(t)
====
